---- MODULE Spec2Model ----
(***************************************************************************)
(* Model of kafka-broker-rust (src/src/main.rs): a TCP listener that       *)
(* spawns one worker thread per accepted connection; every worker loops    *)
(* over  parse_request -> encode_response -> write_all.                    *)
(*                                                                         *)
(* Bytes are the integers 0..255, byte strings are sequences of them.      *)
(* i16 / i32 values are the signed integers Rust computes; usize is only   *)
(* ever compared, never stored.                                            *)
(***************************************************************************)
EXTENDS Integers, Sequences, FiniteSets, TLC

(* ---------------------------- bounds -------------------------------- *)
NumConns == 2          \* client connections of the full system (Spec)
MaxEvents == 3         \* sends, closes and failed accepts together under Spec
MaxFrames == 3         \* frames sent by the one client of SpecConn
MaxAcceptErrors == 1   \* failed accepts the model follows

Conns == 1..NumConns

(* ------------------------ program constants ------------------------- *)
NoError == 0
UnsupportedVersion == 35

(* ------------------- integer <-> big-endian bytes -------------------- *)
\* i8::to_be_bytes
i8_to_be_bytes(v) == << IF v < 0 THEN v + 256 ELSE v >>

\* i16::to_be_bytes
i16_to_be_bytes(v) ==
    LET u == IF v < 0 THEN v + 65536 ELSE v
    IN  << u \div 256, u % 256 >>

\* i32::to_be_bytes (two's complement; the top bit is added to the top byte
\* so that no intermediate value leaves the 32-bit range)
i32_to_be_bytes(v) ==
    LET w   == IF v < 0 THEN v + 2147483647 + 1 ELSE v
        top == (w \div 16777216) + (IF v < 0 THEN 128 ELSE 0)
    IN  << top, (w \div 65536) % 256, (w \div 256) % 256, w % 256 >>

\* i16::from_be_bytes
i16_from_be_bytes(b) ==
    LET u == b[1] * 256 + b[2]
    IN  IF u >= 32768 THEN u - 65536 ELSE u

\* i32::from_be_bytes
i32_from_be_bytes(b) ==
    LET hi == IF b[1] >= 128 THEN b[1] - 256 ELSE b[1]
    IN  hi * 16777216 + b[2] * 65536 + b[3] * 256 + b[4]

Zeros(n) == [i \in 1..n |-> 0]

RECURSIVE Flatten(_)
Flatten(ss) == IF ss = << >> THEN << >> ELSE Head(ss) \o Flatten(Tail(ss))

RECURSIVE Sum(_)
Sum(ns) == IF ns = << >> THEN 0 ELSE Head(ns) + Sum(Tail(ns))

(* --------------------------- ApiKeys -------------------------------- *)
ApiKeys_size(k) == 2 * 3

ApiKeys_to_bytes_swapped(k) ==
    i16_to_be_bytes(k.api_key) \o i16_to_be_bytes(k.max_version)
        \o i16_to_be_bytes(k.min_version)

ApiKeys_to_bytes(k) ==
    i16_to_be_bytes(k.api_key) \o i16_to_be_bytes(k.min_version)
        \o i16_to_be_bytes(k.max_version)

(* -------------------------- ApiVersions ----------------------------- *)
ApiVersions_size(a) ==
    2 + 1 + Sum([i \in 1..Len(a.api_keys) |-> ApiKeys_size(a.api_keys[i])]) + 4

ApiVersions_to_bytes(a) ==
    i16_to_be_bytes(a.error_code) \o i8_to_be_bytes(a.num_api_keys)
        \o Flatten([i \in 1..Len(a.api_keys) |-> ApiKeys_to_bytes(a.api_keys[i])])
        \o i32_to_be_bytes(a.throttle_time_ms)

(* ------------------------- ResponseHeader --------------------------- *)
ResponseHeader_size(h) == 4

ResponseHeader_to_bytes(h) == i32_to_be_bytes(h.correlation_id)

(* -------------------------- ResponseBody ---------------------------- *)
ResponseBody_size_once(b) == ApiVersions_size(b.api_versions) + 1

ResponseBody_size(b) == ApiVersions_size(b.api_versions) + 1 * 2

ResponseBody_to_bytes(b) ==
    ApiVersions_to_bytes(b.api_versions) \o i8_to_be_bytes(b.tag_buffer)
        \o i8_to_be_bytes(b.tag_buffer)

(* ---------------------------- Response ------------------------------ *)
Response_to_bytes(r) ==
    i32_to_be_bytes(r.message_size) \o ResponseHeader_to_bytes(r.header)
        \o ResponseBody_to_bytes(r.body)

(* ---------------------- decode_request_header ----------------------- *)
\* &message_buf[a..b] is in range
SliceInRange_lax(buf, a, b) == TRUE

SliceInRange(buf, a, b) == a <= b /\ b <= Len(buf)

\* &message_buf[a..b]; only evaluated on a range SliceInRange accepts
Slice(buf, a, b) ==
    [i \in 1..(b - a) |-> IF a + i <= Len(buf) THEN buf[a + i] ELSE 0]

Panic == [panic |-> TRUE]

\* decode_request_header with the client_id test written >= 0
decode_request_header_nonneg(message_buf) ==
    IF ~ SliceInRange(message_buf, 0, 10) THEN Panic
    ELSE
      LET size_of_client_id_i16 == i16_from_be_bytes(Slice(message_buf, 8, 10))
      IN  IF size_of_client_id_i16 >= 0
             /\ ~ SliceInRange(message_buf, 10, 10 + size_of_client_id_i16)
          THEN Panic
          ELSE [ panic |-> FALSE,
                 request_api_key |-> i16_from_be_bytes(Slice(message_buf, 0, 2)),
                 request_api_version |-> i16_from_be_bytes(Slice(message_buf, 2, 4)),
                 correlation_id |-> i32_from_be_bytes(Slice(message_buf, 4, 8)),
                 client_id |->
                    IF size_of_client_id_i16 >= 0
                    THEN [some |-> TRUE,
                          bytes |-> Slice(message_buf, 10, 10 + size_of_client_id_i16)]
                    ELSE [some |-> FALSE, bytes |-> << >>] ]

\* the header, or Panic where a slice index is out of range; client_id holds
\* the bytes as from_utf8_unchecked takes them, unvalidated: the str is only
\* copied into the String, which nothing reads afterwards
decode_request_header(message_buf) ==
    IF ~ SliceInRange(message_buf, 0, 2) THEN Panic
    ELSE IF ~ SliceInRange(message_buf, 2, 4) THEN Panic
    ELSE IF ~ SliceInRange(message_buf, 4, 8) THEN Panic
    ELSE IF ~ SliceInRange(message_buf, 8, 10) THEN Panic
    ELSE
      LET request_api_key == i16_from_be_bytes(Slice(message_buf, 0, 2))
          request_api_version == i16_from_be_bytes(Slice(message_buf, 2, 4))
          correlation_id == i32_from_be_bytes(Slice(message_buf, 4, 8))
          size_of_client_id_i16 == i16_from_be_bytes(Slice(message_buf, 8, 10))
      IN  IF size_of_client_id_i16 > 0
             /\ ~ SliceInRange(message_buf, 10, 10 + size_of_client_id_i16)
          THEN Panic
          ELSE [ panic |-> FALSE,
                 request_api_key |-> request_api_key,
                 request_api_version |-> request_api_version,
                 correlation_id |-> correlation_id,
                 client_id |->
                    IF size_of_client_id_i16 > 0
                    THEN [some |-> TRUE,
                          bytes |-> Slice(message_buf, 10, 10 + size_of_client_id_i16)]
                    ELSE [some |-> FALSE, bytes |-> << >>] ]

(* ------------------------- encode_response -------------------------- *)
encode_response_header_key(request) ==
    [correlation_id |-> request.header.request_api_key]

encode_response_header(request) ==
    [correlation_id |-> request.header.correlation_id]

\* the match on request_api_version
error_code_unsigned(request_api_version) ==
    IF request_api_version <= 4 THEN NoError ELSE UnsupportedVersion

error_code_for(request_api_version) ==
    IF 0 <= request_api_version /\ request_api_version <= 4
    THEN NoError ELSE UnsupportedVersion

encode_response_body_empty_on_error(request) ==
    LET error_code == error_code_for(request.header.request_api_version)
        api_keys == IF error_code = NoError
                    THEN << [api_key |-> 18, min_version |-> 0, max_version |-> 4],
                            [api_key |-> 1, min_version |-> 0, max_version |-> 16] >>
                    ELSE << >>
    IN  [ api_versions |-> [ error_code |-> error_code,
                             num_api_keys |-> Len(api_keys),
                             api_keys |-> api_keys,
                             throttle_time_ms |-> 0 ],
          tag_buffer |-> 0 ]

\* error_code chosen from the advertised range of the request's api_key
encode_response_body_per_key(request) ==
    LET api_keys == << [api_key |-> 18, min_version |-> 0, max_version |-> 4],
                       [api_key |-> 1, min_version |-> 0, max_version |-> 16] >>
        v == request.header.request_api_version
        error_code ==
            IF \E k \in 1..2 :
                   /\ api_keys[k].api_key = request.header.request_api_key
                   /\ api_keys[k].min_version <= v
                   /\ v <= api_keys[k].max_version
            THEN NoError ELSE UnsupportedVersion
    IN  [ api_versions |-> [ error_code |-> error_code,
                             num_api_keys |-> 2,
                             api_keys |-> api_keys,
                             throttle_time_ms |-> 0 ],
          tag_buffer |-> 0 ]

encode_response_body(request) ==
    LET api_keys == << [api_key |-> 18, min_version |-> 0, max_version |-> 4],
                       [api_key |-> 1, min_version |-> 0, max_version |-> 16] >>
        error_code == error_code_for(request.header.request_api_version)
    IN  [ api_versions |-> [ error_code |-> error_code,
                             num_api_keys |-> 2,
                             api_keys |-> api_keys,
                             throttle_time_ms |-> 0 ],
          tag_buffer |-> 0 ]

encode_response(request) ==
    LET header == encode_response_header(request)
        body == encode_response_body(request)
        message_size == ResponseHeader_size(header) + ResponseBody_size(body)
    IN  [message_size |-> message_size, header |-> header, body |-> body]

(* ===================================================================== *)
(*                       the running server                              *)
(* ===================================================================== *)
VARIABLES
    process,       \* "running" | "aborted": the process that owns main's accept loop
    accept_errors, \* Err(e) arms taken by the accept loop
    pc,            \* per connection: "none" (not accepted), "size" (blocked in
                   \* parse_message_size), "body" (blocked in decode_request_message),
                   \* "respond" (about to write_all), "dead" (worker thread ended),
                   \* "blocked" (inside write_all, the client not reading)
    inbuf,         \* per connection: bytes received from the client, not yet read
    eof,           \* per connection: the client has closed; reads past inbuf fail
    wok,           \* per connection: writes to the socket still succeed
    message_size,  \* per connection: parse_request's local message_size
    request,       \* per connection: handle_connection's local request
    out,           \* per connection: the responses written, in order
    sent,          \* history: the byte strings the client sent, one per send
    hist           \* history: one record per loop iteration of the worker:
                   \* pgot, bgot = bytes of the prefix / body that came from the
                   \* stream, n = message_size, buf = message_buf, res = "reading",
                   \* "decoded", "ok" (written), "fail" (write failed), "panic";
                   \* dead = the workers already ended when the response was written
                   \* alloc = the buffer size requested from vec!

vars == << process, accept_errors, pc, inbuf, eof, wok, message_size, request,
           out, sent, hist >>

NoRequest == [none |-> TRUE]

Init ==
    /\ process = "running"
    /\ accept_errors = 0
    /\ pc = [c \in Conns |-> "none"]
    /\ inbuf = [c \in Conns |-> << >>]
    /\ eof = [c \in Conns |-> FALSE]
    /\ wok = [c \in Conns |-> TRUE]
    /\ message_size = [c \in Conns |-> 0]
    /\ request = [c \in Conns |-> NoRequest]
    /\ out = [c \in Conns |-> << >>]
    /\ sent = [c \in Conns |-> << >>]
    /\ hist = [c \in Conns |-> << >>]

(* ----------------------------- clients ------------------------------ *)
\* a client writes the bytes f to its socket
ClientSend(c, f) ==
    /\ pc[c] \notin {"none", "dead"}
    /\ ~ eof[c]
    /\ inbuf' = [inbuf EXCEPT ![c] = @ \o f]
    /\ sent' = [sent EXCEPT ![c] = Append(@, f)]
    /\ UNCHANGED << process, accept_errors, pc, eof, wok, message_size, request,
                    out, hist >>

\* a client writes only the first k bytes of f and closes its socket
ClientSendPartial(c, f, k) ==
    /\ pc[c] \notin {"none", "dead"}
    /\ ~ eof[c]
    /\ inbuf' = [inbuf EXCEPT ![c] = @ \o SubSeq(f, 1, k)]
    /\ sent' = [sent EXCEPT ![c] = Append(@, SubSeq(f, 1, k))]
    /\ eof' = [eof EXCEPT ![c] = TRUE]
    /\ UNCHANGED << process, accept_errors, pc, wok, message_size, request,
                    out, hist >>

\* a client closes its socket in an orderly way: the server can still write
ClientClose(c) ==
    /\ pc[c] \notin {"none", "dead"}
    /\ ~ eof[c]
    /\ eof' = [eof EXCEPT ![c] = TRUE]
    /\ UNCHANGED << process, accept_errors, pc, inbuf, wok, message_size,
                    request, out, sent, hist >>

\* the connection is reset: every later write_all fails, reads return what
\* was already received and then fail
PeerReset(c) ==
    /\ pc[c] \notin {"none", "dead"}
    /\ wok[c]
    /\ wok' = [wok EXCEPT ![c] = FALSE]
    /\ eof' = [eof EXCEPT ![c] = TRUE]
    /\ UNCHANGED << process, accept_errors, pc, inbuf, message_size, request,
                    out, sent, hist >>

\* a client writes the first k bytes of f and then nothing more, its
\* socket left open
ClientStall(c, f, k) ==
    /\ pc[c] \notin {"none", "dead"}
    /\ ~ eof[c]
    /\ inbuf' = [inbuf EXCEPT ![c] = @ \o SubSeq(f, 1, k)]
    /\ sent' = [sent EXCEPT ![c] = Append(@, SubSeq(f, 1, k))]
    /\ UNCHANGED << process, accept_errors, pc, eof, wok, message_size, request,
                    out, hist >>

\* a client stops reading: write_all of the pending response never returns
WriteBlocks(c) ==
    /\ process = "running"
    /\ pc[c] = "respond"
    /\ pc' = [pc EXCEPT ![c] = "blocked"]
    /\ UNCHANGED << process, accept_errors, inbuf, eof, wok, message_size,
                    request, out, sent, hist >>

(* ----------------------------- main --------------------------------- *)
\* handle_connection called by the accept loop itself: no accept while a
\* connection is being served
Accept_inline(c) ==
    /\ process = "running"
    /\ pc[c] = "none"
    /\ \A d \in Conns : pc[d] \in {"none", "dead"}
    /\ pc' = [pc EXCEPT ![c] = "size"]
    /\ UNCHANGED << process, accept_errors, inbuf, eof, wok, message_size,
                    request, out, sent, hist >>

\* listener.incoming() yields Ok(stream): thread::spawn(handle_connection)
Accept(c) ==
    /\ process = "running"
    /\ pc[c] = "none"
    /\ pc' = [pc EXCEPT ![c] = "size"]
    /\ UNCHANGED << process, accept_errors, inbuf, eof, wok, message_size,
                    request, out, sent, hist >>

\* the Err(e) arm unwrapped instead of logged: main panics
AcceptError_fatal ==
    /\ process = "running"
    /\ accept_errors < MaxAcceptErrors
    /\ accept_errors' = accept_errors + 1
    /\ process' = "aborted"
    /\ UNCHANGED << pc, inbuf, eof, wok, message_size, request, out, sent, hist >>

\* listener.incoming() yields Err(e): println!, next iteration
AcceptError ==
    /\ process = "running"
    /\ accept_errors < MaxAcceptErrors
    /\ accept_errors' = accept_errors + 1
    /\ UNCHANGED << process, pc, inbuf, eof, wok, message_size, request, out,
                    sent, hist >>

\* a panic inside the closure given to thread::spawn
ThreadPanic_abort(c) ==
    /\ pc' = [pc EXCEPT ![c] = "dead"]
    /\ process' = "aborted"

\* a panic caught inside the loop, which then goes on to the next read
ThreadPanic_resume(c) ==
    /\ pc' = [pc EXCEPT ![c] = "size"]
    /\ process' = process

ThreadPanic(c) ==
    /\ pc' = [pc EXCEPT ![c] = "dead"]
    /\ process' = process

(* ------------------------ handle_connection ------------------------- *)
\* a reader that takes at most the 10 fixed header bytes off the stream
read_exact_header_only(stream, n) ==
    LET m == IF n > 10 THEN 10 ELSE n
    IN  IF Len(stream) >= n
        THEN [buf |-> SubSeq(stream, 1, n), got |-> n,
              rest |-> SubSeq(stream, m + 1, Len(stream))]
        ELSE [buf |-> stream \o Zeros(n - Len(stream)), got |-> Len(stream),
              rest |-> << >>]

\* stream.read_exact(&mut buf) on a zero-initialised buf of n bytes, the
\* Result dropped: got = the bytes that really came from the stream
read_exact(stream, n) ==
    IF Len(stream) >= n
    THEN [buf |-> SubSeq(stream, 1, n), got |-> n,
          rest |-> SubSeq(stream, n + 1, Len(stream))]
    ELSE [buf |-> stream \o Zeros(n - Len(stream)), got |-> Len(stream),
          rest |-> << >>]

\* vec![0u8; message_size_i32 as usize]: a negative i32 sign-extends to a
\* usize above isize::MAX, and the allocation panics with capacity overflow
AllocPanics(message_size_i32) == message_size_i32 < 0

\* message_size_i32 as usize, the size handed to vec!: the i32 itself, or,
\* wrapped, the i32 plus 2^64
as_usize(message_size_i32) ==
    [wrapped |-> message_size_i32 < 0, low |-> message_size_i32]

SetLast(h, r) == [h EXCEPT ![Len(h)] = r]

\* parse_message_size, up to the next blocking read
ReadSize(c) ==
    /\ process = "running"
    /\ pc[c] = "size"
    /\ Len(inbuf[c]) >= 4 \/ eof[c]
    /\ LET r == read_exact(inbuf[c], 4)
           message_size_i32 == i32_from_be_bytes(r.buf)
           entry == [pgot |-> r.got, n |-> message_size_i32, bgot |-> 0,
                     buf |-> << >>, res |-> "reading", dead |-> {},
                     alloc |-> as_usize(message_size_i32)]
       IN  IF AllocPanics(message_size_i32)
           THEN /\ ThreadPanic(c)
                /\ inbuf' = [inbuf EXCEPT ![c] = << >>]
                /\ hist' = [hist EXCEPT ![c] =
                               Append(@, [entry EXCEPT !.res = "panic"])]
                /\ UNCHANGED message_size
           ELSE /\ pc' = [pc EXCEPT ![c] = "body"]
                /\ inbuf' = [inbuf EXCEPT ![c] = r.rest]
                /\ message_size' = [message_size EXCEPT ![c] = message_size_i32]
                /\ hist' = [hist EXCEPT ![c] = Append(@, entry)]
                /\ UNCHANGED process
    /\ UNCHANGED << accept_errors, eof, wok, request, out, sent >>

\* decode_request_message from its read_exact on, and parse_request's return
ReadBody(c) ==
    /\ process = "running"
    /\ pc[c] = "body"
    /\ Len(inbuf[c]) >= message_size[c] \/ eof[c]
    /\ LET r == read_exact(inbuf[c], message_size[c])
           header == decode_request_header(r.buf)
           entry == [hist[c][Len(hist[c])] EXCEPT !.bgot = r.got, !.buf = r.buf]
       IN  IF header.panic
           THEN /\ ThreadPanic(c)
                /\ inbuf' = [inbuf EXCEPT ![c] = << >>]
                /\ hist' = [hist EXCEPT ![c] =
                               SetLast(@, [entry EXCEPT !.res = "panic"])]
                /\ message_size' = [message_size EXCEPT ![c] = 0]
                /\ UNCHANGED request
           ELSE /\ pc' = [pc EXCEPT ![c] = "respond"]
                /\ inbuf' = [inbuf EXCEPT ![c] = r.rest]
                /\ request' = [request EXCEPT ![c] =
                                  [message_size |-> message_size[c],
                                   header |-> header]]
                /\ message_size' = [message_size EXCEPT ![c] = 0]
                /\ hist' = [hist EXCEPT ![c] =
                               SetLast(@, [entry EXCEPT !.res = "decoded"])]
                /\ UNCHANGED process
    /\ UNCHANGED << accept_errors, eof, wok, out, sent >>

\* Respond without the loop: the worker returns after its first write
Respond_once(c) ==
    /\ process = "running"
    /\ pc[c] = "respond"
    /\ LET response == encode_response(request[c])
           kafka_response == Response_to_bytes(response)
           entry == hist[c][Len(hist[c])]
       IN  IF wok[c]
           THEN /\ out' = [out EXCEPT ![c] = Append(@, kafka_response)]
                /\ hist' = [hist EXCEPT ![c] =
                               SetLast(@, [entry EXCEPT !.res = "ok",
                                   !.dead = {d \in Conns : pc[d] = "dead"}])]
           ELSE /\ out' = out
                /\ hist' = [hist EXCEPT ![c] =
                               SetLast(@, [entry EXCEPT !.res = "fail"])]
    /\ pc' = [pc EXCEPT ![c] = "dead"]
    /\ request' = [request EXCEPT ![c] = NoRequest]
    /\ UNCHANGED << process, accept_errors, inbuf, eof, wok, message_size, sent >>

\* Respond with the request kept in one place shared by all workers
Respond_shared(c) ==
    /\ process = "running"
    /\ pc[c] = "respond"
    /\ LET shared == request[CHOOSE d \in Conns : pc[d] = "respond"
                                /\ \A e \in Conns : pc[e] = "respond" => d <= e]
           response == encode_response(shared)
           kafka_response == Response_to_bytes(response)
           entry == hist[c][Len(hist[c])]
       IN  IF wok[c]
           THEN /\ out' = [out EXCEPT ![c] = Append(@, kafka_response)]
                /\ hist' = [hist EXCEPT ![c] =
                               SetLast(@, [entry EXCEPT !.res = "ok",
                                   !.dead = {d \in Conns : pc[d] = "dead"}])]
           ELSE /\ out' = out
                /\ hist' = [hist EXCEPT ![c] =
                               SetLast(@, [entry EXCEPT !.res = "fail"])]
    /\ pc' = [pc EXCEPT ![c] = "size"]
    /\ request' = [request EXCEPT ![c] = NoRequest]
    /\ UNCHANGED << process, accept_errors, inbuf, eof, wok, message_size, sent >>

\* encode_response, to_bytes, write_all with its Result dropped, loop
Respond(c) ==
    /\ process = "running"
    /\ pc[c] = "respond"
    /\ LET response == encode_response(request[c])
           kafka_response == Response_to_bytes(response)
           entry == hist[c][Len(hist[c])]
       IN  IF wok[c]
           THEN /\ out' = [out EXCEPT ![c] = Append(@, kafka_response)]
                /\ hist' = [hist EXCEPT ![c] =
                               SetLast(@, [entry EXCEPT !.res = "ok",
                                   !.dead = {d \in Conns : pc[d] = "dead"}])]
           ELSE /\ out' = out
                /\ hist' = [hist EXCEPT ![c] =
                               SetLast(@, [entry EXCEPT !.res = "fail"])]
    /\ pc' = [pc EXCEPT ![c] = "size"]
    /\ request' = [request EXCEPT ![c] = NoRequest]
    /\ UNCHANGED << process, accept_errors, inbuf, eof, wok, message_size, sent >>

(* ----------------------- what the clients send ---------------------- *)
MkFrame(n, key, ver, corr, clen, rest) ==
    i32_to_be_bytes(n) \o i16_to_be_bytes(key) \o i16_to_be_bytes(ver)
        \o i32_to_be_bytes(corr) \o i16_to_be_bytes(clen) \o rest

Scenario1Request == << 0, 0, 0, 8,  0, 18, 0, 4,  0, 0, 0, 7,  255, 255 >>
Scenario1Framed == MkFrame(10, 18, 4, 7, -1, << >>)
Scenario2Framed == MkFrame(10, 18, 9999, 7, -1, << >>)
NegativeVersion == MkFrame(10, 18, -1, -1, 0, << >>)
HelloFrame == MkFrame(15, 1, 5, 2, 5, << 104, 101, 108, 108, 111 >>)
MinCorrelation == MkFrame(12, 18, 0, -2147483647 - 1, 0, << 9, 9 >>)
EmptyFrame == << 0, 0, 0, 0 >>
ShortFrame == << 0, 0, 0, 9,  0, 18, 0, 4,  0, 0, 0, 7,  0 >>
OverrunFrame == MkFrame(12, 18, 0, 1, 5, << 104, 101 >>)
NegativeSize == << 255, 255, 255, 255 >>
BigPrefix == << 0, 0, 1, 0 >>
OtherClient == MkFrame(10, 18, 9999, 8, 0, << >>)

FramesConn ==
    { Scenario1Request, Scenario1Framed, Scenario2Framed, NegativeVersion,
      HelloFrame, MinCorrelation, EmptyFrame, ShortFrame, OverrunFrame,
      NegativeSize }

\* <<f, k>>: the first k bytes of f, then the client closes
PartialConn ==
    { << Scenario1Framed, 2 >>, << BigPrefix, 3 >>, << HelloFrame, 9 >>,
      << Scenario2Framed, 12 >> }

FramesSys == { Scenario1Framed, OtherClient, ShortFrame, NegativeSize }

PartialSys == { << HelloFrame, 9 >> }

TotalSent == Sum([c \in Conns |-> Len(sent[c])])

\* what the environment has done so far: sends, closed sockets, failed accepts
Events == TotalSent + Cardinality({c \in Conns : eof[c]}) + accept_errors

(* --------------------------- the system ----------------------------- *)
Next ==
    \/ Events < MaxEvents /\ AcceptError
    \/ \E c \in Conns :
          \/ Accept(c)
          \/ Events < MaxEvents /\ \E f \in FramesSys : ClientSend(c, f)
          \/ Events + 1 < MaxEvents
                /\ \E p \in PartialSys : ClientSendPartial(c, p[1], p[2])
          \/ Events < MaxEvents /\ ClientClose(c)
          \/ (eof[c] \/ Events < MaxEvents) /\ PeerReset(c)
          \/ ReadSize(c)
          \/ ReadBody(c)
          \/ Respond(c)

Spec == Init /\ [][Next]_vars

(* ---------------- one connection, every kind of frame --------------- *)
NextConn ==
    \/ AcceptError
    \/ Accept(1)
    \/ Len(sent[1]) < MaxFrames /\ \E f \in FramesConn : ClientSend(1, f)
    \/ Len(sent[1]) < MaxFrames
          /\ \E p \in PartialConn : ClientSendPartial(1, p[1], p[2])
    \/ ClientClose(1)
    \/ PeerReset(1)
    \/ ReadSize(1)
    \/ ReadBody(1)
    \/ Respond(1)

SpecConn == Init /\ [][NextConn]_vars

\* the worker is an OS thread: whenever it can go on, it eventually does
WorkerStep(c) == ReadSize(c) \/ ReadBody(c) \/ Respond(c)

WorkerFairness(c) == WF_vars(WorkerStep(c))

(* ------------- one connection, fairly scheduled worker ------------- *)
FramesLive == { Scenario1Framed, HelloFrame, ShortFrame }

PartialLive == { << HelloFrame, 9 >> }

NextLive ==
    \/ Accept(1)
    \/ Len(sent[1]) < MaxFrames /\ \E f \in FramesLive : ClientSend(1, f)
    \/ Len(sent[1]) < MaxFrames
          /\ \E p \in PartialLive : ClientSendPartial(1, p[1], p[2])
    \/ ClientClose(1)
    \/ PeerReset(1)
    \/ ReadSize(1)
    \/ ReadBody(1)
    \/ Respond(1)

SpecLive == Init /\ [][NextLive]_vars /\ WorkerFairness(1)

(* ------------- one connection, frames that probe the codec --------- *)
BadUtf8Frame == MkFrame(12, 18, 4, 3, 2, << 255, 254 >>)
OtherKeyFrame == MkFrame(12, 18, 5, 2, 0, << 9, 9 >>)
Key1V16Frame == MkFrame(10, 1, 16, 2, -1, << >>)

FramesCodec ==
    { Scenario1Framed, HelloFrame, BadUtf8Frame, OtherKeyFrame, Key1V16Frame }

NextCodec ==
    \/ Accept(1)
    \/ Len(sent[1]) < MaxFrames /\ \E f \in FramesCodec : ClientSend(1, f)
    \/ ReadSize(1)
    \/ ReadBody(1)
    \/ Respond(1)

SpecCodec == Init /\ [][NextCodec]_vars

(* -------- several connections, some of them stalled, fair workers ---- *)
FramesStall == { Scenario1Framed }

\* <<f, k>>: the first k bytes of f, then silence
PartialStall == { << HelloFrame, 9 >> }

\* the client of c stopped in the middle of a frame
StalledClient(c) ==
    /\ sent[c] # << >>
    /\ Len(sent[c][Len(sent[c])])
          < 4 + i32_from_be_bytes(read_exact(sent[c][Len(sent[c])], 4).buf)

NextStall ==
    \E c \in Conns :
        \/ Accept(c)
        \/ Events < MaxEvents /\ ~ StalledClient(c)
              /\ \E f \in FramesStall : ClientSend(c, f)
        \/ Events < MaxEvents /\ ~ StalledClient(c)
              /\ \E p \in PartialStall : ClientStall(c, p[1], p[2])
        \/ WriteBlocks(c)
        \/ ReadSize(c)
        \/ ReadBody(c)
        \/ Respond(c)

SpecStall ==
    Init /\ [][NextStall]_vars /\ \A c \in Conns : WorkerFairness(c)

(* ===================================================================== *)
(*                            properties                                 *)
(* ===================================================================== *)
\* readings of the wire bytes, independent of the codec above
U16(b, i) == b[i] * 256 + b[i + 1]
S16(b, i) == IF U16(b, i) >= 32768 THEN U16(b, i) - 65536 ELSE U16(b, i)

\* f is one whole frame: a non-negative prefix N, then exactly N >= 10 bytes
\* with a client_id that fits
WellFramed(f) ==
    /\ Len(f) >= 14
    /\ f[1] = 0 /\ f[2] = 0
    /\ Len(f) = 4 + U16(f, 3)
    /\ S16(f, 13) > 0 => 14 + S16(f, 13) <= Len(f)

\* the k-th loop iteration of c received a whole frame
FullyReceived(e) == e.res # "reading" /\ e.pgot = 4 /\ e.n >= 0 /\ e.bgot = e.n

CorrelationOf(response) == SubSeq(response, 5, 8)
ErrorCodeOf(response) == SubSeq(response, 9, 10)

\* C1: on one connection the k-th response written echoes, byte for byte, the
\* correlation_id at bytes [4,8) of the body of the k-th request frame sent,
\* whatever its sign and whether or not it repeats.
C1_CorrelationEchoed ==
    \A c \in Conns : \A k \in 1..Len(out[c]) :
        (k <= Len(sent[c]) /\ \A j \in 1..k : WellFramed(sent[c][j]))
            => CorrelationOf(out[c][k]) = SubSeq(sent[c][k], 9, 12)

C1_Witness ==
    \E c \in Conns :
        /\ Len(out[c]) = 3
        /\ \A j \in 1..3 : WellFramed(sent[c][j])
        /\ CorrelationOf(out[c][1]) = << 0, 0, 0, 7 >>
        /\ CorrelationOf(out[c][2]) = << 0, 0, 0, 7 >>
        /\ CorrelationOf(out[c][3]) = << 255, 255, 255, 255 >>

\* C2: the error_code of every response is 0 exactly when the request's
\* api_version, read as a signed big-endian int16, lies in 0..4, and 35 for
\* every other value, negative ones included.
C2_ErrorCodeByVersion ==
    \A c \in Conns : \A k \in 1..Len(out[c]) :
        LET v == S16(hist[c][k].buf, 3)
        IN  /\ (0 <= v /\ v <= 4) <=> ErrorCodeOf(out[c][k]) = << 0, 0 >>
            /\ ~ (0 <= v /\ v <= 4) <=> ErrorCodeOf(out[c][k]) = << 0, 35 >>

C2_Witness ==
    \E c \in Conns : \E i, j, k \in 1..Len(out[c]) :
        /\ S16(hist[c][i].buf, 3) = -1 /\ ErrorCodeOf(out[c][i]) = << 0, 35 >>
        /\ S16(hist[c][j].buf, 3) = 9999 /\ ErrorCodeOf(out[c][j]) = << 0, 35 >>
        /\ S16(hist[c][k].buf, 3) = 4 /\ ErrorCodeOf(out[c][k]) = << 0, 0 >>

\* C3: the message_size field of every response written is the number of
\* bytes written for it minus 4, and for the response about to be written
\* every size() equals the length of the matching to_bytes().
C3_MessageSizeExact ==
    \A c \in Conns :
        /\ \A k \in 1..Len(out[c]) :
              LET r == out[c][k]
              IN  /\ r[1] < 128
                  /\ r[1] * 16777216 + r[2] * 65536 + r[3] * 256 + r[4]
                        = Len(r) - 4
        /\ pc[c] = "respond" =>
              LET response == encode_response(request[c])
              IN  /\ ResponseHeader_size(response.header)
                        = Len(ResponseHeader_to_bytes(response.header))
                  /\ ResponseBody_size(response.body)
                        = Len(ResponseBody_to_bytes(response.body))
                  /\ ApiVersions_size(response.body.api_versions)
                        = Len(ApiVersions_to_bytes(response.body.api_versions))
                  /\ response.message_size + 4 = Len(Response_to_bytes(response))

C3_Witness ==
    \E c \in Conns :
        /\ pc[c] = "respond"
        /\ Len(out[c]) = 2
        /\ Len(out[c][1]) = 29 /\ out[c][1][4] = 25

\* what scenario 1 says the server answers, and what it answers to the same
\* request framed with the real length of its body
Scenario1Claimed ==
    << 0, 0, 0, 19,  0, 0, 0, 7,  0, 0,  2,  0, 18, 0, 0, 0, 4,
       0, 1, 0, 0, 0, 16,  0, 0, 0, 0,  0,  0 >>

Scenario1Response ==
    << 0, 0, 0, 25,  0, 0, 0, 7,  0, 0,  2,  0, 18, 0, 0, 0, 4,
       0, 1, 0, 0, 0, 16,  0, 0, 0, 0,  0,  0 >>

FirstHandled(c) ==
    Len(sent[c]) >= 1 /\ Len(hist[c]) >= 1 /\ hist[c][1].res \in {"ok", "panic"}

\* C4 as stated: once the server has handled the request bytes
\* 00 00 00 08 | 00 12 00 04 | 00 00 00 07 | FF FF sent first on a connection
\* whose writes succeed, its output begins with 00 00 00 13 | 00 00 00 07 | ...
C4_Scenario1AsStated ==
    \A c \in Conns :
        (FirstHandled(c) /\ sent[c][1] = Scenario1Request)
            => /\ Len(out[c]) >= 1
               /\ Len(out[c][1]) >= Len(Scenario1Claimed)
               /\ SubSeq(out[c][1], 1, Len(Scenario1Claimed)) = Scenario1Claimed

\* C4 amended: with the length prefix 10 the body really has, the request
\* 00 00 00 0A | 00 12 00 04 | 00 00 00 07 | FF FF sent first on a connection
\* whose writes succeed is answered by exactly 00 00 00 19 | 00 00 00 07 |
\* 00 00 | 02 | 00 12 00 00 00 04 | 00 01 00 00 00 10 | 00 00 00 00 | 00 | 00;
\* with the prefix 8 the worker ends on the 8-byte body and writes nothing.
C4_Scenario1Amended ==
    \A c \in Conns :
        /\ (FirstHandled(c) /\ sent[c][1] = Scenario1Framed)
              => Len(out[c]) >= 1 /\ out[c][1] = Scenario1Response
        /\ (FirstHandled(c) /\ sent[c][1] = Scenario1Request)
              => /\ hist[c][1].res = "panic" /\ hist[c][1].n = 8
                 /\ out[c] = << >> /\ pc[c] = "dead"

C4_Witness ==
    \E c \in Conns :
        /\ FirstHandled(c) /\ sent[c][1] = Scenario1Framed
        /\ hist[c][1].res = "ok" /\ Len(out[c]) = 1

\* the request with the two api_version bytes blanked
SansVersion(buf) == [i \in 1..Len(buf) |-> IF i \in {3, 4} THEN 0 ELSE buf[i]]
\* the response with the two error_code bytes blanked
SansErrorCode(r) == [i \in 1..Len(r) |-> IF i \in {9, 10} THEN 0 ELSE r[i]]

StaticTail ==
    << 2,  0, 18, 0, 0, 0, 4,  0, 1, 0, 0, 0, 16,  0, 0, 0, 0,  0,  0 >>

\* C5: after the error_code every response carries the same bytes: the count
\* 2, which is the number of 6-byte entries that follow, the entries
\* (18,0,4) and (1,0,16) in this order, throttle_time_ms 0 and two zero
\* bytes; responses to requests that differ only in api_version differ only
\* in the error_code bytes.
C5_StaticBody ==
    \A c \in Conns : \A k \in 1..Len(out[c]) :
        /\ Len(out[c][k]) = 10 + Len(StaticTail)
        /\ SubSeq(out[c][k], 11, Len(out[c][k])) = StaticTail
        /\ out[c][k][11] * 6 = Len(out[c][k]) - 10 - 1 - 4 - 2
        /\ \A l \in 1..Len(out[c]) :
              SansVersion(hist[c][k].buf) = SansVersion(hist[c][l].buf)
                 => SansErrorCode(out[c][k]) = SansErrorCode(out[c][l])

C5_Witness ==
    \E c \in Conns : \E k, l \in 1..Len(out[c]) :
        /\ hist[c][k].buf # hist[c][l].buf
        /\ SansVersion(hist[c][k].buf) = SansVersion(hist[c][l].buf)
        /\ ErrorCodeOf(out[c][k]) = << 0, 0 >>
        /\ ErrorCodeOf(out[c][l]) = << 0, 35 >>

\* C6 as stated: a worker blocked in the read of its next frame has fully
\* written the response to every frame it read before (reads and writes
\* alternate, and no read begins before the previous response is written).
C6_ReadOnlyAfterWritten ==
    \A c \in Conns :
        pc[c] = "size" => \A i \in 1..Len(hist[c]) : hist[c][i].res = "ok"

\* C7 as stated: a RequestHeader is decoded, and a response written, only
\* for a frame whose 4 prefix bytes and N body bytes all came from the stream.
C7_OnlyCompleteFramesDecoded ==
    \A c \in Conns : \A i \in 1..Len(hist[c]) :
        hist[c][i].res \in {"decoded", "ok", "fail"}
            => hist[c][i].pgot = 4 /\ hist[c][i].bgot = hist[c][i].n

\* C8 as stated: after a response write has failed, no further frame is
\* read from that connection.
C8_NoReadAfterFailedWrite ==
    \A c \in Conns : \A i, j \in 1..Len(hist[c]) :
        (i < j /\ hist[c][i].res = "fail") => ~ FullyReceived(hist[c][j])

\* the frame body is too short for the header it declares
Truncated(e) ==
    \/ e.n < 10
    \/ S16(e.buf, 9) > 0 /\ S16(e.buf, 9) > e.n - 10

\* C9: a fully received frame whose body has fewer than 10 bytes, or whose
\* positive client_id length exceeds the bytes after offset 10, gets no
\* response; the worker ends there, so the connection is dropped and the
\* frame is the last one processed on it.
C9_TruncatedHeaderDropsConnection ==
    \A c \in Conns : \A i \in 1..Len(hist[c]) :
        (FullyReceived(hist[c][i]) /\ Truncated(hist[c][i]))
            => /\ hist[c][i].res = "panic"
               /\ i = Len(hist[c])
               /\ Len(out[c]) < i
               /\ pc[c] = "dead"
               /\ request[c] = NoRequest

C9_Witness ==
    \E c \in Conns : \E i \in 1..Len(hist[c]) :
        /\ i = 2 /\ Len(out[c]) = 1
        /\ FullyReceived(hist[c][i])
        /\ hist[c][i].n = 12 /\ S16(hist[c][i].buf, 9) = 5
        /\ pc[c] = "dead"

\* this step is a failure on connection c: a short read, a failed write or a
\* panic of its worker
FailureOn(c) ==
    /\ hist'[c] # hist[c]
    /\ LET e == hist'[c][Len(hist'[c])]
       IN  \/ e.res \in {"panic", "fail"}
           \/ e.pgot < 4
           \/ e.res # "reading" /\ e.bgot < e.n

\* the response this step writes on d answers the frame d's worker last read
AnswersOwnFrame(d) ==
    LET k == Len(out'[d])
        r == out'[d][k]
        e == hist'[d][k]
    IN  /\ CorrelationOf(r) = SubSeq(e.buf, 5, 8)
        /\ ErrorCodeOf(r) = IF 0 <= S16(e.buf, 3) /\ S16(e.buf, 3) <= 4
                            THEN << 0, 0 >> ELSE << 0, 35 >>
        /\ SubSeq(r, 11, Len(r)) = StaticTail

\* C10: no step ends the process, so the accept loop goes on; a failure on
\* one connection changes nothing of any other connection; a worker ends
\* only by its own panic; and every response written, before or after
\* failures elsewhere, answers the frame read on its own connection.
C10_FailuresScoped ==
    [][ /\ process' = "running"
        /\ \A c \in Conns : FailureOn(c) =>
              \A d \in Conns \ {c} :
                 /\ pc'[d] = pc[d] /\ inbuf'[d] = inbuf[d] /\ out'[d] = out[d]
                 /\ request'[d] = request[d] /\ hist'[d] = hist[d]
                 /\ eof'[d] = eof[d] /\ wok'[d] = wok[d]
        /\ \A d \in Conns :
              /\ (pc'[d] = "dead" /\ pc[d] # "dead") =>
                    hist'[d][Len(hist'[d])].res = "panic"
              /\ pc[d] = "none" => ENABLED Accept(d)
              /\ Len(out'[d]) > Len(out[d]) => AnswersOwnFrame(d)
      ]_vars

C10_Witness ==
    \E c, d \in Conns :
        /\ c # d
        /\ pc[c] = "dead" /\ process = "running"
        /\ \E k \in 1..Len(hist[d]) :
              /\ hist[d][k].res = "ok" /\ c \in hist[d][k].dead
              /\ out[d][k] = Scenario1Response

\* nothing has gone wrong on c up to its k-th send: every frame sent so far
\* is whole and well formed, and writes succeed
Healthy(c, k) ==
    wok[c] /\ \A j \in 1..k : j <= Len(sent[c]) => WellFramed(sent[c][j])

\* a whole well-formed frame sent on c, with no failure before it, has no
\* response yet although nothing holds the write
Pending(c) ==
    \E k \in 1..Len(sent[c]) :
        Healthy(c, k) /\ Len(out[c]) < k /\ pc[c] # "blocked"

\* C11: a successful write takes the worker back to the read of the next
\* frame; a worker fed only whole well-formed frames, with no I/O error, is
\* never ended; and under fair scheduling of the worker every such frame is
\* eventually answered, however many were sent before it (whenever such a
\* frame is unanswered, a moment follows at which none is).
C11_PersistentSession ==
    /\ [][ \A c \in Conns :
              (Len(out'[c]) > Len(out[c])) => pc'[c] = "size" ]_vars
    /\ [][ \A c \in Conns :
              (Healthy(c, Len(sent[c])) /\ ~ eof[c])' => pc'[c] # "dead" ]_vars
    /\ Pending(1) ~> ~ Pending(1)

C11_Witness ==
    \E c \in Conns :
        /\ Len(sent[c]) = 3 /\ Healthy(c, 3) /\ ~ eof[c]
        /\ Len(out[c]) = 3 /\ pc[c] = "size"

\* the frame body the worker of c decoded last
LastBuf(c) == hist[c][Len(hist[c])].buf

\* C12: the client_id of the decoded header is present exactly when the
\* signed big-endian int16 at body bytes [8,10) is > 0, and is then bytes
\* [10, 10+length); for 0 and for negative lengths it is absent, and the
\* header is the one the first 10 bytes alone decode to.
C12_ClientIdByLength ==
    \A c \in Conns :
        pc[c] = "respond" =>
            LET buf == LastBuf(c)
                len == S16(buf, 9)
                id == request[c].header.client_id
            IN  /\ id.some <=> len > 0
                /\ len > 0 => id.bytes = SubSeq(buf, 11, 10 + len)
                /\ len <= 0 =>
                      /\ id.bytes = << >>
                      /\ request[c].header
                            = decode_request_header(SubSeq(buf, 1, 10))

C12_Witness ==
    \E c \in Conns :
        /\ Len(hist[c]) = 3 /\ pc[c] = "respond"
        /\ request[c].header.client_id
              = [some |-> TRUE, bytes |-> << 104, 101, 108, 108, 111 >>]
        /\ S16(hist[c][1].buf, 9) = -1 /\ hist[c][1].res = "ok"
        /\ S16(hist[c][2].buf, 9) = 0 /\ hist[c][2].res = "ok"
        /\ Len(hist[c][2].buf) = 12

\* C13: a failed accept changes nothing but the log: the process and every
\* worker go on, each connection not yet accepted can still be accepted, and
\* a connection accepted after failed accepts gets a worker of its own that
\* starts at the read of its first frame, leaving the other workers alone.
C13_AcceptErrorsNotFatal ==
    [][ /\ accept_errors' > accept_errors =>
              /\ process' = "running"
              /\ pc' = pc /\ out' = out /\ inbuf' = inbuf
              /\ \A c \in Conns : pc[c] = "none" => (ENABLED Accept(c))'
        /\ accept_errors >= 1 =>
              \A c \in Conns :
                 (pc[c] = "none" /\ pc'[c] # "none") =>
                    /\ pc'[c] = "size"
                    /\ hist'[c] = << >> /\ request'[c] = NoRequest
                    /\ out'[c] = << >>
                    /\ \A d \in Conns \ {c} : pc'[d] = pc[d]
      ]_vars

C13_Witness ==
    \E c, d \in Conns :
        /\ accept_errors >= 1 /\ process = "running"
        /\ pc[c] = "none" /\ ENABLED Accept(c)
        /\ pc[d] \notin {"none", "dead"}

\* the worker of c is held by its client: in the middle of a frame that
\* does not come, or inside a write the client does not read
StalledWorker(c) ==
    \/ pc[c] = "blocked"
    \/ pc[c] = "size" /\ Len(inbuf[c]) < 4 /\ StalledClient(c)
    \/ pc[c] = "body" /\ Len(inbuf[c]) < message_size[c] /\ StalledClient(c)

\* C14: whatever clients stall, every connection not yet accepted can be
\* accepted, a stall on one connection leaves the others as they are, and
\* under fair scheduling of the workers every whole well-formed frame sent
\* on a connection is answered unless that connection's own write is blocked
\* (again and again a moment comes at which no such frame is unanswered).
C14_StallsAreLocal ==
    /\ [][ \A c \in Conns : pc'[c] = "none" => (ENABLED Accept(c))' ]_vars
    /\ [][ \A c \in Conns :
              (StalledWorker(c)' /\ ~ StalledWorker(c)) =>
                  \A d \in Conns \ {c} :
                     /\ pc'[d] = pc[d] /\ inbuf'[d] = inbuf[d]
                     /\ out'[d] = out[d] /\ request'[d] = request[d] ]_vars
    /\ []<>(\A d \in Conns : ~ Pending(d))

C14_Witness ==
    \E c, d \in Conns :
        /\ c # d
        /\ StalledWorker(c)
        /\ Len(out[d]) >= 1 /\ pc[d] = "respond"

\* b is well-formed UTF-8 (what std::str::from_utf8 accepts)
RECURSIVE ValidUtf8(_)
ValidUtf8(b) ==
    IF b = << >> THEN TRUE
    ELSE
      LET h == b[1]
          n == Len(b)
          Cont(x) == 128 <= x /\ x <= 191
      IN  IF h <= 127 THEN ValidUtf8(Tail(b))
          ELSE IF 194 <= h /\ h <= 223
          THEN n >= 2 /\ Cont(b[2]) /\ ValidUtf8(SubSeq(b, 3, n))
          ELSE IF 224 <= h /\ h <= 239
          THEN /\ n >= 3 /\ Cont(b[2]) /\ Cont(b[3])
               /\ h = 224 => b[2] >= 160
               /\ h = 237 => b[2] <= 159
               /\ ValidUtf8(SubSeq(b, 4, n))
          ELSE IF 240 <= h /\ h <= 244
          THEN /\ n >= 4 /\ Cont(b[2]) /\ Cont(b[3]) /\ Cont(b[4])
               /\ h = 240 => b[2] >= 144
               /\ h = 244 => b[2] <= 143
               /\ ValidUtf8(SubSeq(b, 5, n))
          ELSE FALSE

\* C15 as stated: a frame whose client_id region is not valid UTF-8 is never
\* decoded into a RequestHeader and never answered.
C15_InvalidUtf8Rejected ==
    \A c \in Conns : \A i \in 1..Len(hist[c]) :
        LET e == hist[c][i]
        IN  (e.res \in {"decoded", "ok", "fail"} /\ S16(e.buf, 9) > 0)
               => ValidUtf8(SubSeq(e.buf, 11, 10 + S16(e.buf, 9)))

\* C16: under any interleaving of the workers, the request a worker is about
\* to answer is the one decoded from the frame it read last on its own
\* connection, every response written on a connection carries the
\* correlation_id and the error_code of the frame read in the same loop
\* iteration of that connection, and between two requests a worker holds
\* no request and no message_size.
C16_OwnFrameOnly ==
    \A c \in Conns :
        /\ pc[c] = "respond" =>
              /\ request[c].message_size = Len(LastBuf(c))
              /\ i32_to_be_bytes(request[c].header.correlation_id)
                    = SubSeq(LastBuf(c), 5, 8)
              /\ request[c].header.request_api_version = S16(LastBuf(c), 3)
        /\ pc[c] \in {"none", "size", "body", "dead"} => request[c] = NoRequest
        /\ pc[c] \in {"none", "size", "respond", "dead"} => message_size[c] = 0
        /\ \A k \in 1..Len(out[c]) :
              /\ CorrelationOf(out[c][k]) = SubSeq(hist[c][k].buf, 5, 8)
              /\ ErrorCodeOf(out[c][k]) = << 0, 0 >>
                    <=> S16(hist[c][k].buf, 3) \in 0..4

C16_Witness ==
    \E c, d \in Conns :
        /\ c # d
        /\ pc[c] = "respond" /\ pc[d] = "size"
        /\ Len(out[d]) = 1 /\ Len(hist[d]) = 1
        /\ CorrelationOf(out[d][1]) = << 0, 0, 0, 8 >>
        /\ request[c].header.correlation_id = 7
        /\ c < d

\* C17: while the frames sent on a connection are whole and well formed, the
\* k-th loop iteration takes its length prefix N from the first 4 bytes of
\* the k-th frame and its body from exactly the N bytes after them, client_id
\* and undecoded trailing bytes included; what is left unread is exactly the
\* frames not yet reached.
C17_ExactFraming ==
    \A c \in Conns :
        /\ \A k \in 1..Len(hist[c]) :
              (k <= Len(sent[c]) /\ \A j \in 1..k : WellFramed(sent[c][j])) =>
                  /\ hist[c][k].pgot = 4
                  /\ hist[c][k].n = Len(sent[c][k]) - 4
                  /\ hist[c][k].res # "reading" =>
                        /\ hist[c][k].bgot = hist[c][k].n
                        /\ hist[c][k].buf
                              = SubSeq(sent[c][k], 5, Len(sent[c][k]))
        /\ (pc[c] \in {"size", "respond"} /\ Len(hist[c]) <= Len(sent[c])
              /\ \A j \in 1..Len(sent[c]) : WellFramed(sent[c][j])) =>
              inbuf[c] = Flatten(SubSeq(sent[c], Len(hist[c]) + 1, Len(sent[c])))

C17_Witness ==
    \E c \in Conns :
        /\ Len(sent[c]) = 3 /\ Len(hist[c]) = 3
        /\ sent[c][1] = HelloFrame /\ sent[c][2] = MinCorrelation
        /\ WellFramed(sent[c][3])
        /\ hist[c][3].res = "ok"
        /\ hist[c][2].buf = SubSeq(MinCorrelation, 5, 16)

NoAlloc == [none |-> TRUE]

\* C18 as stated: for a frame whose length prefix decodes to a negative N no
\* buffer of a size derived from N is requested, no body byte is read and no
\* response is written.
C18_NegativeSizeRejectedFirst ==
    \A c \in Conns : \A i \in 1..Len(hist[c]) :
        hist[c][i].n < 0 =>
            /\ hist[c][i].alloc = NoAlloc
            /\ hist[c][i].bgot = 0 /\ hist[c][i].buf = << >>
            /\ Len(out[c]) < i

\* the k-th frame sent on c and every frame before it is whole, and answered
Answered(c, k) ==
    /\ k <= Len(out[c]) /\ k <= Len(sent[c])
    /\ \A j \in 1..k : WellFramed(sent[c][j])

ApiKeyOf(f) == S16(f, 5)
ApiVersionOf(f) == S16(f, 7)
VersionAndCorrelation(f) == SubSeq(f, 7, 12)

\* C19: the bytes of a response depend on the request's api_version and
\* correlation_id only: two requests that agree on both, whatever their
\* api_key, client_id, trailing bytes, connection or position on it, get
\* byte-identical responses; and a request with api_key 1 and api_version in
\* 5..16 is answered with UnsupportedVersion (35).
C19_VersionAndCorrelationOnly ==
    \A c, d \in Conns : \A i \in 1..Len(out[c]) : \A j \in 1..Len(out[d]) :
        (Answered(c, i) /\ Answered(d, j)) =>
            /\ VersionAndCorrelation(sent[c][i]) = VersionAndCorrelation(sent[d][j])
                  => out[c][i] = out[d][j]
            /\ (ApiKeyOf(sent[c][i]) = 1 /\ ApiVersionOf(sent[c][i]) \in 5..16)
                  => ErrorCodeOf(out[c][i]) = << 0, UnsupportedVersion >>

C19_Witness ==
    \E c \in Conns :
        /\ Answered(c, 3)
        /\ sent[c][1] = HelloFrame /\ sent[c][2] = Key1V16Frame
        /\ sent[c][3] = OtherKeyFrame
        /\ out[c][1] = out[c][3]
        /\ ErrorCodeOf(out[c][2]) = << 0, UnsupportedVersion >>

\* the peer of c has closed and every further read returns end-of-input
Drained(c) == eof[c] /\ inbuf[c] = << >>

\* a loop iteration one of whose reads hit end-of-input
ShortRead(e) == e.pgot < 4 \/ (e.res # "reading" /\ e.bgot < e.n)

\* C20: a worker does not loop on a closed connection. An iteration begun
\* when every read returns end-of-input reads no prefix byte; an iteration
\* that read no prefix byte writes no response and is the worker's last;
\* after an iteration with a short read comes at most one more, which is of
\* that kind (so at most one response follows the close); and under fair
\* scheduling of the worker a closed, drained connection's worker ends.
C20_ClosedConnectionEndsWorker ==
    /\ [][ \A c \in Conns :
              (Drained(c) /\ Len(hist'[c]) > Len(hist[c])) =>
                  hist'[c][Len(hist'[c])].pgot = 0 ]_vars
    /\ [][ \A c \in Conns : \A i \in 1..Len(hist'[c]) :
              /\ hist'[c][i].pgot = 0 =>
                    /\ i = Len(hist'[c])
                    /\ hist'[c][i].res \in {"reading", "panic"}
                    /\ pc'[c] \in {"body", "dead"}
              /\ ShortRead(hist'[c][i]) =>
                    /\ Len(hist'[c]) <= i + 1
                    /\ Len(hist'[c]) = i + 1 => hist'[c][i + 1].pgot = 0 ]_vars
    /\ (Drained(1) /\ pc[1] # "none") ~> (pc[1] = "dead")

C20_Witness ==
    /\ eof[1] /\ wok[1] /\ pc[1] = "dead"
    /\ Len(hist[1]) = 3 /\ Len(out[1]) = 2
    /\ hist[1][1].res = "ok" /\ ~ ShortRead(hist[1][1])
    /\ hist[1][2].res = "ok" /\ hist[1][2].pgot = 4
    /\ hist[1][2].bgot = 5 /\ hist[1][2].n = 15
    /\ hist[1][3].res = "panic" /\ hist[1][3].pgot = 0

====
